---- MODULE Spec2Model ----
(***************************************************************************)
(* Model of the Cursor store registry and query layer of                   *)
(* phalcon_mcp_server.py: class CursorDBManager and the protocol-facing    *)
(* resources and tools built on it.                                        *)
(*                                                                         *)
(* Conventions                                                             *)
(*  - a filesystem path is a sequence of segments; the empty sequence      *)
(*    stands for Python's None wherever a path or a URI is optional;       *)
(*  - a text whose characters matter (a folder URI) is a sequence of       *)
(*    tokens, each either the separator "/" or a run of other characters;  *)
(*  - a decoded Python value is a record tagged by t ("dict", "list",      *)
(*    "str", "int", "none"), a stored text one tagged "text"; an exception *)
(*    is named by its class.                                               *)
(***************************************************************************)
EXTENDS Integers, Sequences, FiniteSets, TLC

VARIABLES
    fs_dirs,         \* the directories that exist on disk
    fs_files,        \* the files that exist on disk, path -> content
    cursor_path,     \* CursorDBManager.cursor_path
    project_dirs,    \* CursorDBManager.project_dirs
    db_paths,        \* CursorDBManager.db_paths       (flat view)
    projects_info,   \* CursorDBManager.projects_info  (detailed view)
    global_db_path,  \* CursorDBManager.global_db_path
    result,          \* the protocol-facing call just answered, with its outcome
    passes,          \* history: refresh passes over the disk as it is now,
                     \* counted up to MaxPasses
    pc,              \* the line a refresh_db_paths in progress has reached
    todo,            \* what the loop of that refresh has yet to visit
    before           \* history: the maps when that refresh began

vars == <<fs_dirs, fs_files, cursor_path, project_dirs, db_paths,
          projects_info, global_db_path, result, passes, pc, todo, before>>

fsVars  == <<fs_dirs, fs_files>>
cfgVars == <<cursor_path, project_dirs>>
regVars == <<db_paths, projects_info, global_db_path>>
runVars == <<pc, todo, before>>

(***************************************************************************)
(* Bounds                                                                  *)
(***************************************************************************)
NumWorkspaces == 2

MaxPasses == 2

(***************************************************************************)
(* Paths                                                                   *)
(***************************************************************************)
NoPath == << >>

Last(s) == s[Len(s)]

Front(s) == SubSeq(s, 1, Len(s) - 1)

Join(p, name) == Append(p, name)

Parent(p) == Front(p)

HomeDir == <<"home", "u">>

\* get_default_cursor_path: the default root of the platform, None on a
\* platform that is not known
get_default_cursor_path(system) ==
    CASE system = "Darwin"  ->
             HomeDir \o <<"Library", "Application Support", "Cursor", "User">>
      [] system = "Windows" ->
             HomeDir \o <<"AppData", "Roaming", "Cursor", "User">>
      [] system = "Linux"   -> HomeDir \o <<".config", "Cursor", "User">>
      [] OTHER              -> NoPath

\* Path(p).expanduser(): a leading "~" becomes the home directory
ExpandUser(p) ==
    IF p # << >> /\ p[1] = "~" THEN HomeDir \o Tail(p) ELSE p

\* Path(p).resolve(): "." segments dropped, ".." pops the segment before it
RECURSIVE ResolveFrom(_, _)
ResolveFrom(done, rest) ==
    IF rest = << >> THEN done
    ELSE IF Head(rest) = "." THEN ResolveFrom(done, Tail(rest))
    ELSE IF Head(rest) = ".."
         THEN ResolveFrom(IF done = << >> THEN done ELSE Front(done), Tail(rest))
    ELSE ResolveFrom(Append(done, Head(rest)), Tail(rest))

Resolve(p) == ResolveFrom(<< >>, p)

\* Path.name: the final segment
PathName(p) == IF p = << >> THEN "" ELSE Last(p)

(***************************************************************************)
(* Filesystem                                                              *)
(***************************************************************************)
Exists(p) == p \in fs_dirs \/ p \in DOMAIN fs_files

IsDir(p) == p \in fs_dirs

WsId(i) == ToString(i)

\* workspaceStorage.iterdir(): the entries present, in the directory's
\* (stable) listing order
IterDir(d) ==
    LET all == [i \in 1..NumWorkspaces |-> Join(d, WsId(i))]
        Present(p) == Exists(p)
    IN  SelectSeq(all, Present)

(***************************************************************************)
(* Texts and their JSON decoding                                           *)
(***************************************************************************)
SLASH == "/"

UriMyApp == <<"file:", SLASH, SLASH, SLASH, "home", SLASH, "u", SLASH,
              "code", SLASH, "my-app">>

PyNone == [t |-> "none"]

PyStr(s) == [t |-> "str", v |-> s]

PyInt(n) == [t |-> "int", v |-> n]

PyList(s) == [t |-> "list", v |-> s]

PyDict(f) == [t |-> "dict", v |-> f]

TextMyApp == "{\"folder\": \"file:///home/u/code/my-app\"}"

TextLibSlash == "{\"folder\": \"file:///srv/lib/\"}"

TextMalformed == "{\"folder\": "

TextRoot == "{\"folder\": \"/\"}"

TextSlashes == "{\"folder\": \"///\"}"

TextScheme == "{\"folder\": \"file:///\"}"

TextNoFolder == "{}"

TextFolderEmpty == "{\"folder\": \"\"}"

TextFolderFive == "{\"folder\": 5}"

TextListDoc == "[]"

TextA1 == "{\"a\": 1}"

TextComposers ==
    "{\"allComposers\": [{\"composerId\": \"c1\"}, {\"name\": \"x\"}]}"

TextComposersCut == "{\"allComposers\": [{\"composerId\""

TextFive == "5"

TextNull == "null"

TextNotJson == "not json"

TextEmpty == ""

\* the JSON documents of the model; any other text is not valid JSON
JsonDocs ==
    (TextMyApp :> PyDict("folder" :> PyStr(UriMyApp))) @@
    (TextLibSlash :>
        PyDict("folder" :>
            PyStr(<<"file:", SLASH, SLASH, SLASH, "srv", SLASH, "lib", SLASH>>))) @@
    (TextRoot :> PyDict("folder" :> PyStr(<<SLASH>>))) @@
    (TextSlashes :> PyDict("folder" :> PyStr(<<SLASH, SLASH, SLASH>>))) @@
    (TextScheme :> PyDict("folder" :> PyStr(<<"file:", SLASH, SLASH, SLASH>>))) @@
    (TextNoFolder :> PyDict(<< >>)) @@
    (TextFolderEmpty :> PyDict("folder" :> PyStr(<< >>))) @@
    (TextFolderFive :> PyDict("folder" :> PyInt(5))) @@
    (TextListDoc :> PyList(<< >>)) @@
    (TextA1 :> PyDict("a" :> PyInt(1))) @@
    (TextComposers :>
        PyDict("allComposers" :>
            PyList(<<PyDict("composerId" :> PyStr(<<"c1">>)),
                     PyDict("name" :> PyStr(<<"x">>))>>))) @@
    (TextFive :> PyInt(5)) @@
    (TextNull :> PyNone)

\* the texts of the model that contain a given word
TextsContaining(word) ==
    CASE word = "allComposers" -> {TextComposers, TextComposersCut}
      [] word = "composerId"   -> {TextComposers, TextComposersCut}
      [] OTHER                 -> {}

\* json.loads(x) / json.load(f): the decoded document, or the exception
json_loads(x) ==
    IF x.t = "none" THEN [ok |-> FALSE, exc |-> "TypeError"]
    ELSE IF x.v \in DOMAIN JsonDocs
         THEN [ok |-> TRUE, doc |-> JsonDocs[x.v]]
         ELSE [ok |-> FALSE, exc |-> "JSONDecodeError"]

\* stored text: the file or column content as a Python str
Text(s) == [t |-> "text", v |-> s]

(***************************************************************************)
(* Project-name derivation                                                 *)
(***************************************************************************)
\* str.rstrip('/')
RECURSIVE RStripSlash(_)
RStripSlash(u) ==
    IF u # << >> /\ Last(u) = SLASH THEN RStripSlash(Front(u)) ELSE u

\* str.split('/')[-1]: what follows the last separator
RECURSIVE SplitLast(_)
SplitLast(u) ==
    IF u = << >> \/ Last(u) = SLASH THEN ""
    ELSE SplitLast(Front(u)) \o Last(u)

ProjectNameOf(folder_uri) == SplitLast(RStripSlash(folder_uri))

(***************************************************************************)
(* CursorDBManager: discovery                                              *)
(***************************************************************************)
WORKSPACE_STORAGE == "workspaceStorage"

GLOBAL_STORAGE == "globalStorage"

WORKSPACE_JSON == "workspace.json"

STATE_DB == "state.vscdb"

\* Python truthiness of a decoded value
Truthy(x) ==
    CASE x.t = "none" -> FALSE
      [] x.t = "str"  -> x.v # << >>
      [] x.t = "int"  -> x.v # 0
      [] x.t = "list" -> x.v # << >>
      [] x.t = "dict" -> DOMAIN x.v # {}

\* dict.get(key): the value, or None
DictGet(d, key) == IF key \in DOMAIN d.v THEN d.v[key] ELSE PyNone

\* the body of the scan loop for one entry of workspaceStorage: the records
\* it appends (none or one); every exception is caught and logged
WorkspaceProjects(workspace_dir) ==
    LET workspace_json == Join(workspace_dir, WORKSPACE_JSON)
        state_db       == Join(workspace_dir, STATE_DB)
    IN  IF ~IsDir(workspace_dir) THEN << >>
        ELSE IF ~(Exists(workspace_json) /\ Exists(state_db)) THEN << >>
        ELSE LET loaded == json_loads(fs_files[workspace_json])
             IN  IF ~loaded.ok THEN << >>                 \* JSONDecodeError
                 ELSE IF loaded.doc.t # "dict" THEN << >> \* AttributeError
                 ELSE LET folder_uri == DictGet(loaded.doc, "folder")
                      IN  IF ~Truthy(folder_uri) THEN << >>
                          ELSE IF folder_uri.t # "str" THEN << >> \* AttributeError
                          ELSE << [name          |-> ProjectNameOf(folder_uri.v),
                                   db_path       |-> state_db,
                                   workspace_dir |-> workspace_dir,
                                   folder_uri    |-> folder_uri.v] >>

RECURSIVE ScanFrom(_)
ScanFrom(entries) ==
    IF entries = << >> THEN << >>
    ELSE WorkspaceProjects(Head(entries)) \o ScanFrom(Tail(entries))

\* the outcome of detect_cursor_projects: the records, or the exception of
\* workspace_storage.iterdir(), which runs outside the try of the loop body
detect_cursor_projects ==
    IF cursor_path = NoPath THEN [outcome |-> "return", value |-> << >>]
    ELSE IF ~Exists(cursor_path) THEN [outcome |-> "return", value |-> << >>]
    ELSE LET workspace_storage == Join(cursor_path, WORKSPACE_STORAGE)
         IN  IF ~Exists(workspace_storage)
             THEN [outcome |-> "return", value |-> << >>]
             ELSE IF ~IsDir(workspace_storage)
             THEN [outcome |-> "raise", exc |-> "NotADirectoryError",
                   msg |-> "Not a directory"]
             ELSE [outcome |-> "return",
                   value   |-> ScanFrom(IterDir(workspace_storage))]

\* cursor_projects = self.detect_cursor_projects(), when the call returns
cursor_projects == detect_cursor_projects.value

\* the scan of refresh_db_paths ends in an exception
ScanRaises ==
    cursor_path # NoPath /\ detect_cursor_projects.outcome = "raise"

(***************************************************************************)
(* CursorDBManager: refresh                                                *)
(***************************************************************************)
EmptyMap == << >>

\* dict[key] = value
Put(m, key, value) ==
    [k \in DOMAIN m \cup {key} |-> IF k = key THEN value ELSE m[k]]

Maps(flat, info) == [db_paths |-> flat, projects_info |-> info]

\* the loop over the scanned projects
RECURSIVE RegisterScanned(_, _)
RegisterScanned(maps, projects) ==
    IF projects = << >> THEN maps
    ELSE LET project == Head(projects)
         IN  RegisterScanned(
                 Maps(Put(maps.db_paths, project.name, project.db_path),
                      Put(maps.projects_info, project.name, project)),
                 Tail(projects))

\* mutant: an explicit directory does not replace a name already registered
RegisterExplicit_keep(maps, project_dir) ==
    LET project_path == Resolve(ExpandUser(project_dir))
        db_path      == Join(project_path, STATE_DB)
        project_name == PathName(project_path)
    IN  IF Exists(db_path) /\ project_name \notin DOMAIN maps.db_paths
        THEN Maps(Put(maps.db_paths, project_name, db_path),
                  Put(maps.projects_info, project_name,
                      [name          |-> project_name,
                       db_path       |-> db_path,
                       workspace_dir |-> NoPath,
                       folder_uri    |-> NoPath]))
        ELSE maps

\* the body of the loop over the explicit directories, for one directory
RegisterExplicit(maps, project_dir) ==
    LET project_path == Resolve(ExpandUser(project_dir))
        db_path      == Join(project_path, STATE_DB)
    IN  IF Exists(db_path)
        THEN LET project_name == PathName(project_path)
             IN  Maps(Put(maps.db_paths, project_name, db_path),
                      Put(maps.projects_info, project_name,
                          [name          |-> project_name,
                           db_path       |-> db_path,
                           workspace_dir |-> NoPath,
                           folder_uri    |-> NoPath]))
        ELSE maps

RECURSIVE RegisterExplicitDirs(_, _)
RegisterExplicitDirs(maps, dirs) ==
    IF dirs = << >> THEN maps
    ELSE RegisterExplicitDirs(RegisterExplicit(maps, Head(dirs)), Tail(dirs))

\* mutant: the pass starts from the maps of the previous pass
ClearedMaps_stale == Maps(db_paths, projects_info)

\* the maps refresh_db_paths starts from
ClearedMaps == Maps(EmptyMap, EmptyMap)

\* the global store path after the probe under cursor_path
ProbeGlobal(old) ==
    IF cursor_path = NoPath THEN old
    ELSE LET global_storage_path ==
                 Join(Join(cursor_path, GLOBAL_STORAGE), STATE_DB)
         IN  IF Exists(global_storage_path) THEN global_storage_path ELSE old

\* the maps at the end of refresh_db_paths, given the maps it starts from
RefreshedMaps(start) ==
    LET scanned == IF cursor_path = NoPath THEN start
                   ELSE RegisterScanned(start, cursor_projects)
    IN  RegisterExplicitDirs(scanned, project_dirs)

(***************************************************************************)
(* Stores (sqlite3)                                                        *)
(***************************************************************************)
ITEM_TABLE == "ItemTable"

CURSOR_DISK_KV == "cursorDiskKV"

\* a store file: a database with its tables, each a sequence of rows
Database(tables) == [t |-> "db", tables |-> tables]

\* the file sqlite3.connect creates when there is none
NewDatabase == Database(EmptyMap)

\* a file that is not a database
Garbage == [t |-> "garbage"]

Row(key, value) == [key |-> key, value |-> value]

Raise(exc, msg) == [outcome |-> "raise", exc |-> exc, msg |-> msg]

Return(value) == [outcome |-> "return", value |-> value]

\* the exception classes and their direct base class
BaseOf ==
    [JSONDecodeError     |-> "ValueError",
     UnicodeDecodeError  |-> "ValueError",
     ValueError          |-> "Exception",
     TypeError           |-> "Exception",
     AttributeError      |-> "Exception",
     KeyError            |-> "Exception",
     OverflowError       |-> "Exception",
     NotADirectoryError  |-> "OSError",
     OSError             |-> "Exception",
     OperationalError    |-> "DatabaseError",
     DatabaseError       |-> "sqlite3.Error",
     Exception           |-> "BaseException"] @@
    ("sqlite3.Error" :> "Exception")

\* isinstance(exc, cls), what an except clause tests
RECURSIVE IsInstance(_, _)
IsInstance(exc, cls) ==
    \/ exc = cls
    \/ exc \in DOMAIN BaseOf /\ IsInstance(BaseOf[exc], cls)

\* sqlite3.connect(db_path): the file is created when its directory exists
Connect(db_path) ==
    IF db_path \in DOMAIN fs_files
    THEN [ok |-> TRUE, created |-> FALSE, file |-> fs_files[db_path]]
    ELSE IF db_path # NoPath /\ IsDir(Parent(db_path)) /\ db_path \notin fs_dirs
    THEN [ok |-> TRUE, created |-> TRUE, file |-> NewDatabase]
    ELSE [ok |-> FALSE, created |-> FALSE, file |-> Garbage]

\* ASCII case folding of LIKE
Lower(c) ==
    CASE c = "Chat" -> "chat"
      [] c = "A"    -> "a"
      [] OTHER      -> c

\* x LIKE pattern: "%" matches any run, "_" any one character, the rest
\* compares without regard to ASCII case
RECURSIVE Like(_, _)
Like(x, pattern) ==
    IF pattern = << >> THEN x = << >>
    ELSE IF Head(pattern) = "%"
         THEN \/ Like(x, Tail(pattern))
              \/ x # << >> /\ Like(Tail(x), pattern)
    ELSE /\ x # << >>
         /\ \/ Head(pattern) = "_"
            \/ Lower(Head(pattern)) = Lower(Head(x))
         /\ Like(Tail(x), Tail(pattern))

\* LIMIT n: a negative n is no limit
Limit(rows, n) ==
    IF n < 0 \/ n >= Len(rows) THEN rows ELSE SubSeq(rows, 1, n)

\* cursor.execute(SELECT ... FROM table): the rows of the table, which the
\* WHERE and LIMIT clauses of the statement then filter
Select(file, table) ==
    IF file.t # "db" THEN Raise("DatabaseError", "file is not a database")
    ELSE IF table \notin DOMAIN file.tables
         THEN Raise("OperationalError", "no such table")
    ELSE Return(file.tables[table])

(***************************************************************************)
(* CursorDBManager.execute_query                                           *)
(***************************************************************************)
MSG_NOT_FOUND == "Project not found"

MSG_BAD_TABLE == "Table name must be either 'ItemTable' or 'cursorDiskKV'"

MSG_BAD_QUERY == "Invalid query type or missing key parameter"

\* mutant: only the projects found by the directory scan are accepted
Registered_scanned(project_name) ==
    /\ project_name \in DOMAIN db_paths
    /\ projects_info[project_name].workspace_dir # NoPath

\* project_name in self.db_paths
Registered(project_name) == project_name \in DOMAIN db_paths

\* mutant: the table name is not checked before the store is opened
ValidTable_any(table_name) == TRUE

\* table_name in ["ItemTable", "cursorDiskKV"]
ValidTable(table_name) == table_name \in {ITEM_TABLE, CURSOR_DISK_KV}

\* truthiness of the key argument: None and the empty string are falsy
KeyGiven(key) == key.t = "str" /\ key.v # << >>

\* the handler that guards json.loads in the row loop of execute_query
RowHandlerCatches(exc) == IsInstance(exc, "JSONDecodeError")

\* the row loop: the records, or the first exception the handler lets through
RECURSIVE NormalizeRows(_)
NormalizeRows(rows) ==
    IF rows = << >> THEN Return(<< >>)
    ELSE LET row    == Head(rows)
             parsed == json_loads(row.value)
             rest   == NormalizeRows(Tail(rows))
         IN  IF parsed.ok
             THEN IF rest.outcome = "raise" THEN rest
                  ELSE Return(<<Row(row.key, parsed.doc)>> \o rest.value)
             ELSE IF RowHandlerCatches(parsed.exc)
             THEN IF rest.outcome = "raise" THEN rest
                  ELSE Return(<<Row(row.key, row.value)>> \o rest.value)
             ELSE Raise(parsed.exc, "the JSON object must be str, bytes or bytearray")

\* the effects of a call on the stores, with its outcome
Call(out, opened, closed, executed, created) ==
    [out |-> out, opened |-> opened, closed |-> closed,
     executed |-> executed, created |-> created]

execute_query(project_name, table_name, query_type, key, limit) ==
    IF ~Registered(project_name)
    THEN Call(Raise("ValueError", MSG_NOT_FOUND), 0, 0, 0, NoPath)
    ELSE IF ~ValidTable(table_name)
    THEN Call(Raise("ValueError", MSG_BAD_TABLE), 0, 0, 0, NoPath)
    ELSE
    LET db_path == db_paths[project_name]
        conn    == Connect(db_path)
        created == IF conn.created THEN db_path ELSE NoPath
        All(r)     == TRUE
        ByKey(r)   == r.key = key.v
        Search(r)  == Like(r.key, <<"%">> \o key.v \o <<"%">>)
    IN  IF ~conn.ok
        THEN Call(Raise("OperationalError", "unable to open database file"),
                  0, 0, 0, NoPath)
        ELSE IF ~(\/ query_type = "get_all"
                  \/ query_type = "get_by_key" /\ KeyGiven(key)
                  \/ query_type = "search_keys" /\ KeyGiven(key))
        THEN Call(Raise("ValueError", MSG_BAD_QUERY), 1, 0, 0, created)
        ELSE
        LET fetched == Select(conn.file, table_name)
            limited ==
                IF fetched.outcome = "raise" THEN fetched
                ELSE CASE query_type = "get_all" ->
                            Return(Limit(SelectSeq(fetched.value, All), limit))
                       [] query_type = "get_by_key" ->
                            Return(SelectSeq(fetched.value, ByKey))
                       [] query_type = "search_keys" ->
                            Return(Limit(SelectSeq(fetched.value, Search), limit))
        IN  IF limited.outcome = "raise"
            THEN Call(limited, 1, 0, 1, created)
            ELSE LET results == NormalizeRows(limited.value)
                 IN  IF results.outcome = "raise"
                     THEN Call(results, 1, 0, 1, created)
                     ELSE Call(results, 1, 1, 1, created)

(***************************************************************************)
(* CursorDBManager: the well-known-key lookups                             *)
(***************************************************************************)
DEFAULT_LIMIT == 100

KEY_CHAT_DATA == <<"workbench.panel.ai", "chat", ".view.ai", "chat", ".", "chat", "data">>

KEY_COMPOSER_DATA == <<"composer.composerData">>

COMPOSER_PREFIX == <<"composerData:">>

ErrorPayload(msg) == [error |-> msg]

get_chat_data(project_name) ==
    IF ~Registered(project_name)
    THEN Call(Raise("ValueError", MSG_NOT_FOUND), 0, 0, 0, NoPath)
    ELSE LET q == execute_query(project_name, ITEM_TABLE, "get_by_key",
                                PyStr(KEY_CHAT_DATA), DEFAULT_LIMIT)
         IN  IF q.out.outcome = "raise" THEN q
             ELSE IF q.out.value # << >>
             THEN [q EXCEPT !.out = Return(q.out.value[1].value)]
             ELSE [q EXCEPT !.out =
                      Return(ErrorPayload("No chat data found for this project"))]

\* word in x
PyIn(word, x) ==
    CASE x.t = "dict" -> Return(word \in DOMAIN x.v)
      [] x.t = "list" ->
            Return(\E i \in DOMAIN x.v : x.v[i].t = "str" /\ x.v[i].v = <<word>>)
      [] x.t = "str"  -> Return(\E i \in DOMAIN x.v : x.v[i] = word)
      [] x.t = "text" -> Return(x.v \in TextsContaining(word))
      [] OTHER        -> Raise("TypeError", "argument is not iterable")

\* x[word]
PyItem(x, word) ==
    IF x.t = "dict"
    THEN IF word \in DOMAIN x.v THEN Return(x.v[word])
         ELSE Raise("KeyError", word)
    ELSE Raise("TypeError", "indices must be integers")

\* iter(x): the elements a for loop visits
PyIter(x) ==
    CASE x.t = "list" -> Return(x.v)
      [] x.t = "str"  -> Return([i \in DOMAIN x.v |-> PyStr(<<x.v[i]>>)])
      [] OTHER        -> Raise("TypeError", "object is not iterable")

\* the loop collecting the composerId of every composer that has one
RECURSIVE CollectComposerIds(_)
CollectComposerIds(composers) ==
    IF composers = << >> THEN Return(<< >>)
    ELSE LET composer == Head(composers)
             has      == PyIn("composerId", composer)
         IN  IF has.outcome = "raise" THEN has
             ELSE LET item == IF has.value THEN PyItem(composer, "composerId")
                              ELSE Return(PyNone)
                      rest == CollectComposerIds(Tail(composers))
                  IN  IF item.outcome = "raise" THEN item
                      ELSE IF rest.outcome = "raise" THEN rest
                      ELSE IF has.value
                           THEN Return(<<item.value>> \o rest.value)
                           ELSE rest

\* the extraction of the identifiers from the decoded composer index
ComposerIdsOf(composer_data) ==
    LET has == PyIn("allComposers", composer_data)
    IN  IF has.outcome = "raise" THEN has
        ELSE IF ~has.value THEN Return(<< >>)
        ELSE LET all == PyItem(composer_data, "allComposers")
             IN  IF all.outcome = "raise" THEN all
                 ELSE LET it == PyIter(all.value)
                      IN  IF it.outcome = "raise" THEN it
                          ELSE CollectComposerIds(it.value)

get_composer_ids(project_name) ==
    IF ~Registered(project_name)
    THEN Call(Raise("ValueError", MSG_NOT_FOUND), 0, 0, 0, NoPath)
    ELSE LET q == execute_query(project_name, ITEM_TABLE, "get_by_key",
                                PyStr(KEY_COMPOSER_DATA), DEFAULT_LIMIT)
         IN  IF q.out.outcome = "raise" THEN q
             ELSE IF q.out.value # << >>
             THEN LET composer_data == q.out.value[1].value
                      composer_ids  == ComposerIdsOf(composer_data)
                  IN  IF composer_ids.outcome = "raise"
                      THEN [q EXCEPT !.out = composer_ids]
                      ELSE [q EXCEPT !.out =
                               Return([composer_ids |-> composer_ids.value,
                                       full_data    |-> composer_data])]
             ELSE [q EXCEPT !.out =
                      Return(ErrorPayload("No composer data found for this project"))]

\* the handler that guards json.loads in get_composer_data
ComposerHandlerCatches(exc) == IsInstance(exc, "JSONDecodeError")

\* mutant: the lookup goes to the store without asking for its path
GlobalKnown_any == TRUE

\* self.global_db_path is truthy
GlobalKnown == global_db_path # NoPath

MSG_NO_GLOBAL == "Global storage database not found"

MSG_NO_COMPOSER == "No data found for composer ID"

get_composer_data(composer_id) ==
    IF ~GlobalKnown
    THEN Call(Raise("ValueError", MSG_NO_GLOBAL), 0, 0, 0, NoPath)
    ELSE
    LET conn    == Connect(global_db_path)
        created == IF conn.created THEN global_db_path ELSE NoPath
        key     == COMPOSER_PREFIX \o composer_id
        ByKey(r) == r.key = key
    IN  IF ~conn.ok
        THEN Call(Raise("OperationalError", "unable to open database file"),
                  0, 0, 0, NoPath)
        ELSE LET rows    == Select(conn.file, CURSOR_DISK_KV)
                 fetched == IF rows.outcome = "raise" THEN rows
                            ELSE Return(SelectSeq(rows.value, ByKey))
             IN  IF fetched.outcome = "raise"
                 THEN Call(fetched, 1, 0, 1, created)
                 ELSE IF fetched.value = << >>
                 THEN Call(Return(ErrorPayload(MSG_NO_COMPOSER)), 1, 1, 1, created)
                 ELSE LET value  == fetched.value[1].value
                          parsed == json_loads(value)
                      IN  IF parsed.ok
                          THEN Call(Return([composer_id |-> composer_id,
                                            data |-> parsed.doc]),
                                    1, 1, 1, created)
                          ELSE IF ComposerHandlerCatches(parsed.exc)
                          THEN Call(Return([composer_id |-> composer_id,
                                            data |-> value]),
                                    1, 1, 1, created)
                          ELSE Call(Raise(parsed.exc,
                                      "the JSON object must be str, bytes or bytearray"),
                                    1, 1, 1, created)

(***************************************************************************)
(* Protocol-facing resources and tools                                     *)
(***************************************************************************)
\* try: call / except cls: return payload; an exception no clause names
\* propagates
list_all_projects == Call(Return(db_paths), 0, 0, 0, NoPath)

list_detailed_projects == Call(Return(projects_info), 0, 0, 0, NoPath)

get_project_chat_data(project_name) ==
    LET c == get_chat_data(project_name)
    IN  IF c.out.outcome = "return" THEN c
        ELSE IF IsInstance(c.out.exc, "ValueError")
        THEN [c EXCEPT !.out = Return(ErrorPayload(c.out.msg))]
        ELSE IF IsInstance(c.out.exc, "Exception")
        THEN [c EXCEPT !.out =
                 Return(ErrorPayload("Error retrieving chat data: " \o c.out.msg))]
        ELSE c

get_project_composer_ids(project_name) ==
    LET c == get_composer_ids(project_name)
    IN  IF c.out.outcome = "return" THEN c
        ELSE IF IsInstance(c.out.exc, "ValueError")
        THEN [c EXCEPT !.out = Return(ErrorPayload(c.out.msg))]
        ELSE IF IsInstance(c.out.exc, "Exception")
        THEN [c EXCEPT !.out =
                 Return(ErrorPayload("Error retrieving composer data: " \o c.out.msg))]
        ELSE c

get_composer_data_resource(composer_id) ==
    LET c == get_composer_data(composer_id)
    IN  IF c.out.outcome = "return" THEN c
        ELSE IF IsInstance(c.out.exc, "ValueError")
        THEN [c EXCEPT !.out = Return(ErrorPayload(c.out.msg))]
        ELSE IF IsInstance(c.out.exc, "Exception")
        THEN [c EXCEPT !.out =
                 Return(ErrorPayload("Error retrieving composer data: " \o c.out.msg))]
        ELSE c

\* the exception classes query_table turns into an error payload
QueryTableCatches(exc) ==
    IsInstance(exc, "ValueError") \/ IsInstance(exc, "sqlite3.Error")

query_table(project_name, table_name, query_type, key, limit) ==
    LET c == execute_query(project_name, table_name, query_type, key, limit)
    IN  IF c.out.outcome = "return" THEN c
        ELSE IF ~QueryTableCatches(c.out.exc) THEN c
        ELSE IF IsInstance(c.out.exc, "ValueError")
        THEN [c EXCEPT !.out = Return(<<ErrorPayload(c.out.msg)>>)]
        ELSE [c EXCEPT !.out =
                 Return(<<ErrorPayload("Database error: " \o c.out.msg)>>)]

(***************************************************************************)
(* State                                                                   *)
(***************************************************************************)
\* no call is being answered
NoCall == [op |-> "none"]

Answered(op, args, c) == [op |-> op, args |-> args, call |-> c]

\* the store files after a call: sqlite3.connect may have created one
AfterCall(c) ==
    IF c.created = NoPath THEN fs_files
    ELSE Put(fs_files, c.created, NewDatabase)

(***************************************************************************)
(* The disk the server runs on                                             *)
(***************************************************************************)
DefaultCursorPath == get_default_cursor_path("Linux")

Prefixes(p) == {SubSeq(p, 1, k) : k \in 1..Len(p)}

WorkspaceStorageDir == Join(DefaultCursorPath, WORKSPACE_STORAGE)

WsDir(i) == Join(WorkspaceStorageDir, WsId(i))

WsStore(i) == Join(WsDir(i), STATE_DB)

WsJson(i) == Join(WsDir(i), WORKSPACE_JSON)

GlobalStorePath == Join(Join(DefaultCursorPath, GLOBAL_STORAGE), STATE_DB)

\* the explicit project directories, as configured and as resolved
XDir == <<"x", "my-app">>

YDir == <<"~", "lib", "..", "my-app">>

ExplicitStore(d) == Join(Resolve(ExpandUser(d)), STATE_DB)

StorePaths ==
    {WsStore(i) : i \in 1..NumWorkspaces} \cup {GlobalStorePath}
        \cup {ExplicitStore(d) : d \in {XDir, YDir}}

\* the stores that come and go while the server runs
VolatileStores == StorePaths \ {ExplicitStore(XDir)}

BaseDirs == UNION {Prefixes(Parent(p)) : p \in StorePaths}

\* a project store as the IDE writes it
StoreGood ==
    Database((ITEM_TABLE :>
                 <<Row(KEY_CHAT_DATA, Text(TextA1)),
                   Row(KEY_COMPOSER_DATA, Text(TextComposers)),
                   Row(<<"other", ".", "key">>, Text(TextNotJson)),
                   Row(<<"Chat">>, Text(TextEmpty))>>) @@
             (CURSOR_DISK_KV :>
                 <<Row(COMPOSER_PREFIX \o <<"c1">>, Text(TextA1))>>))

\* a project store with a NULL value and values of unexpected shapes
StoreOdd ==
    Database((ITEM_TABLE :>
                 <<Row(KEY_COMPOSER_DATA, Text(TextComposersCut)),
                   Row(KEY_CHAT_DATA, PyNone),
                   Row(<<"a", "_", "b">>, Text(TextFive)),
                   Row(<<"a", "x", "b">>, Text(TextNotJson))>>) @@
             (CURSOR_DISK_KV :> << >>))

\* the global store
StoreGlobal ==
    Database((ITEM_TABLE :> << >>) @@
             (CURSOR_DISK_KV :>
                 <<Row(COMPOSER_PREFIX \o <<"c1">>, Text(TextComposers)),
                   Row(COMPOSER_PREFIX \o <<"c2">>, Text(TextNotJson)),
                   Row(COMPOSER_PREFIX \o <<"c3">>, PyNone)>>))

\* what the IDE writes at a store path
StoreContent(p) == IF p = GlobalStorePath THEN StoreGlobal ELSE StoreGood

\* the descriptor of workspace i on a fresh disk
DescriptorOf(i) == IF i = 1 THEN TextMyApp ELSE TextLibSlash

BaseFiles ==
    [p \in StorePaths \cup {WsJson(i) : i \in 1..NumWorkspaces} |->
        IF p \in StorePaths THEN StoreContent(p)
        ELSE Text(DescriptorOf(CHOOSE i \in 1..NumWorkspaces : p = WsJson(i)))]

ProjectDirConfigs == {<< >>, <<XDir, YDir>>, <<YDir, XDir>>}

\* __init__: the attributes are set to empty maps and to None, and the
\* first refresh fills them
Constructed ==
    /\ db_paths = RefreshedMaps(Maps(EmptyMap, EmptyMap)).db_paths
    /\ projects_info = RefreshedMaps(Maps(EmptyMap, EmptyMap)).projects_info
    /\ global_db_path = ProbeGlobal(NoPath)
    /\ result = NoCall
    /\ passes = 1
    /\ pc = "idle"
    /\ todo = << >>
    /\ before = Maps(db_paths, projects_info)

Init ==
    /\ fs_dirs = BaseDirs
    /\ fs_files = BaseFiles
    /\ cursor_path \in {DefaultCursorPath, get_default_cursor_path("Other")}
    /\ project_dirs \in ProjectDirConfigs
    /\ Constructed

(***************************************************************************)
(* The IDE and the user changing the disk, between two calls               *)
(***************************************************************************)
RemoveStore(p) ==
    /\ result = NoCall /\ pc = "idle"
    /\ p \in DOMAIN fs_files
    /\ fs_files' = [q \in DOMAIN fs_files \ {p} |-> fs_files[q]]
    /\ result' = NoCall
    /\ passes' = 0
    /\ UNCHANGED <<fs_dirs, cfgVars, regVars, runVars>>

WriteStore(p) ==
    /\ result = NoCall /\ pc = "idle"
    /\ p \notin DOMAIN fs_files
    /\ Parent(p) \in fs_dirs
    /\ fs_files' = Put(fs_files, p, StoreContent(p))
    /\ result' = NoCall
    /\ passes' = 0
    /\ UNCHANGED <<fs_dirs, cfgVars, regVars, runVars>>

WriteDescriptor(i, text) ==
    /\ result = NoCall /\ pc = "idle"
    /\ WsDir(i) \in fs_dirs
    /\ fs_files' = Put(fs_files, WsJson(i), Text(text))
    /\ fs_files' # fs_files
    /\ result' = NoCall
    /\ passes' = 0
    /\ UNCHANGED <<fs_dirs, cfgVars, regVars, runVars>>

RemoveWorkspace(i) ==
    /\ result = NoCall /\ pc = "idle"
    /\ WsDir(i) \in fs_dirs
    /\ fs_dirs' = fs_dirs \ {WsDir(i)}
    /\ fs_files' = [p \in DOMAIN fs_files \ {WsJson(i), WsStore(i)} |-> fs_files[p]]
    /\ result' = NoCall
    /\ passes' = 0
    /\ UNCHANGED <<cfgVars, regVars, runVars>>

CreateWorkspace(i) ==
    /\ result = NoCall /\ pc = "idle"
    /\ WsDir(i) \notin fs_dirs
    /\ fs_dirs' = fs_dirs \cup {WsDir(i)}
    /\ fs_files' = Put(fs_files, WsJson(i), Text(DescriptorOf(i)))
    /\ result' = NoCall
    /\ passes' = 0
    /\ UNCHANGED <<cfgVars, regVars, runVars>>

(***************************************************************************)
(* The calls: the server answers one call before it takes the next         *)
(***************************************************************************)
\* the answer is handed to the protocol layer
Respond ==
    /\ result # NoCall
    /\ result' = NoCall
    /\ UNCHANGED <<fsVars, cfgVars, regVars, passes, runVars>>

\* mutant: the pass stores the scanned directory back into cursor_path
refresh_db_paths_reassign ==
    /\ db_paths' = RefreshedMaps(ClearedMaps).db_paths
    /\ projects_info' = RefreshedMaps(ClearedMaps).projects_info
    /\ global_db_path' = ProbeGlobal(global_db_path)
    /\ cursor_path' = Join(cursor_path, WORKSPACE_STORAGE)
    /\ UNCHANGED project_dirs

\* CursorDBManager.refresh_db_paths, the whole method; an exception of the
\* scan leaves it after the maps were cleared
refresh_db_paths ==
    /\ IF ScanRaises
       THEN /\ db_paths' = ClearedMaps.db_paths
            /\ projects_info' = ClearedMaps.projects_info
            /\ UNCHANGED global_db_path
       ELSE /\ db_paths' = RefreshedMaps(ClearedMaps).db_paths
            /\ projects_info' = RefreshedMaps(ClearedMaps).projects_info
            /\ global_db_path' = ProbeGlobal(global_db_path)
    /\ UNCHANGED cfgVars

RefreshDatabases ==
    /\ result = NoCall /\ pc = "idle"
    /\ refresh_db_paths
    /\ result' = Answered("refresh_databases", << >>,
                     Call(IF ScanRaises
                          THEN Raise(detect_cursor_projects.exc,
                                     detect_cursor_projects.msg)
                          ELSE Return([message  |-> "Database paths refreshed",
                                       projects |-> db_paths']),
                          0, 0, 0, NoPath))
    /\ passes' = IF ScanRaises THEN 0
               ELSE IF passes < MaxPasses THEN passes + 1 ELSE passes
    /\ UNCHANGED <<fsVars, runVars>>

\* a call that leaves the registry alone
Serve(op, args, c) ==
    /\ result = NoCall
    /\ result' = Answered(op, args, c)
    /\ fs_files' = AfterCall(c)
    /\ passes' = IF c.created = NoPath THEN passes ELSE 0
    /\ UNCHANGED <<fs_dirs, cfgVars, regVars, runVars>>

ListAllProjects == Serve("list_all_projects", << >>, list_all_projects)

ListDetailedProjects ==
    Serve("list_detailed_projects", << >>, list_detailed_projects)

GetProjectChatData(project_name) ==
    Serve("get_project_chat_data", [project_name |-> project_name],
          get_project_chat_data(project_name))

GetProjectComposerIds(project_name) ==
    Serve("get_project_composer_ids", [project_name |-> project_name],
          get_project_composer_ids(project_name))

GetComposerDataResource(composer_id) ==
    Serve("get_composer_data_resource", [composer_id |-> composer_id],
          get_composer_data_resource(composer_id))

QueryTable(project_name, table_name, query_type, key, limit) ==
    Serve("query_table",
          [project_name |-> project_name, table_name |-> table_name,
           query_type |-> query_type, key |-> key, limit |-> limit],
          query_table(project_name, table_name, query_type, key, limit))

(***************************************************************************)
(* Spec: the registry over a changing disk                                 *)
(***************************************************************************)
ProjectNames == {"my-app", "lib", "ghost"}

Next ==
    \/ \E p \in VolatileStores : RemoveStore(p)
    \/ \E p \in VolatileStores : WriteStore(p)
    \/ \E i \in 2..NumWorkspaces, text \in {TextMyApp, TextLibSlash} :
           WriteDescriptor(i, text)
    \/ \E i \in 2..NumWorkspaces : RemoveWorkspace(i)
    \/ \E i \in 2..NumWorkspaces : CreateWorkspace(i)
    \/ RefreshDatabases
    \/ ListAllProjects
    \/ ListDetailedProjects
    \/ \E n \in ProjectNames : GetProjectChatData(n)
    \/ \E n \in ProjectNames : GetProjectComposerIds(n)
    \/ \E n \in ProjectNames :
           QueryTable(n, ITEM_TABLE, "get_all", PyNone, DEFAULT_LIMIT)
    \/ Respond

Spec == Init /\ [][Next]_vars

(***************************************************************************)
(* Properties of the registry                                              *)
(***************************************************************************)
\* a refresh pass has run over the disk as it is now
AfterRefresh == passes >= 1 /\ pc = "idle"

ExplicitName(d) == PathName(Resolve(ExpandUser(d)))

ScannedNames ==
    {cursor_projects[i].name : i \in DOMAIN cursor_projects}

\* the configured directory at position i holds a store, and no later
\* directory of the list that holds one derives the same name
LastExplicit(i) ==
    /\ Exists(ExplicitStore(project_dirs[i]))
    /\ \A j \in DOMAIN project_dirs :
           (j > i /\ Exists(ExplicitStore(project_dirs[j])))
               => ExplicitName(project_dirs[j]) # ExplicitName(project_dirs[i])

\* C1: after a refresh, a name derived from an explicit directory that holds
\* a store maps, in the flat and in the detailed view, to that directory's
\* store, with no workspace or folder field, whether or not the scan of the
\* root found the same name; among explicit directories of the same name the
\* later one of the configured list wins.
C1_OverrideLaw ==
    AfterRefresh =>
        \A i \in DOMAIN project_dirs :
            LET name  == ExplicitName(project_dirs[i])
                store == ExplicitStore(project_dirs[i])
            IN  LastExplicit(i) =>
                    /\ name \in DOMAIN db_paths
                    /\ db_paths[name] = store
                    /\ name \in DOMAIN projects_info
                    /\ projects_info[name] =
                           [name |-> name, db_path |-> store,
                            workspace_dir |-> NoPath, folder_uri |-> NoPath]

\* the scan and two explicit directories all derive "my-app"; the later
\* explicit directory is the one registered
C1_Witness ==
    /\ AfterRefresh
    /\ result.op = "refresh_databases"
    /\ "my-app" \in ScannedNames
    /\ project_dirs = <<XDir, YDir>>
    /\ Exists(ExplicitStore(XDir)) /\ Exists(ExplicitStore(YDir))
    /\ db_paths["my-app"] = ExplicitStore(YDir)

\* C2: a refresh that follows a refresh, with no change of the disk or of the
\* configuration in between, leaves the flat and the detailed map as they
\* were.
C2_Idempotent ==
    [][(passes >= 1 /\ result.op = "none" /\ result'.op = "refresh_databases")
          => (db_paths' = db_paths /\ projects_info' = projects_info)]_vars

\* two passes in a row over an unchanged disk, with projects from the scan
\* and from the explicit list
C2_Witness ==
    /\ passes = MaxPasses
    /\ result.op = "refresh_databases"
    /\ ScannedNames # {}
    /\ \E i \in DOMAIN project_dirs : LastExplicit(i)

\* the names a pass over the disk as it is now finds
FoundNow ==
    ScannedNames \cup
        {ExplicitName(project_dirs[i]) :
            i \in {j \in DOMAIN project_dirs : Exists(ExplicitStore(project_dirs[j]))}}

\* C3: after a refresh both maps hold exactly the projects the pass found on
\* the disk; every registered store file exists, so an entry of an earlier
\* pass whose store or workspace directory is gone is no longer there.
C3_ReplacesNeverMerges ==
    AfterRefresh =>
        /\ DOMAIN db_paths = FoundNow
        /\ DOMAIN projects_info = FoundNow
        /\ \A n \in DOMAIN db_paths :
               /\ db_paths[n] \in DOMAIN fs_files
               /\ projects_info[n].db_path = db_paths[n]
               /\ projects_info[n].name = n
               /\ projects_info[n].workspace_dir # NoPath
                      => IsDir(projects_info[n].workspace_dir)

\* the directory of workspace 2 is gone and its project, registered at
\* start, is absent after the pass
C3_Witness ==
    /\ AfterRefresh
    /\ result.op = "refresh_databases"
    /\ cursor_path # NoPath
    /\ WsDir(2) \notin fs_dirs
    /\ "lib" \notin DOMAIN db_paths
    /\ db_paths # EmptyMap

\* C4: after a refresh the global store path is held exactly when the global
\* store file exists under the configured root.
C4_GlobalPathCleared ==
    AfterRefresh =>
        LET global_storage_path ==
                Join(Join(cursor_path, GLOBAL_STORAGE), STATE_DB)
        IN  IF cursor_path # NoPath /\ Exists(global_storage_path)
            THEN global_db_path = global_storage_path
            ELSE global_db_path = NoPath

NameOps == {"query_table", "get_project_chat_data", "get_project_composer_ids"}

\* the payload a call returns for an unknown project name
NotFoundPayload ==
    IF result.op = "query_table"
    THEN <<ErrorPayload(MSG_NOT_FOUND)>>
    ELSE ErrorPayload(MSG_NOT_FOUND)

AnsweredNotFound ==
    /\ result.call.out.outcome = "return"
    /\ result.call.out.value = NotFoundPayload

\* C7: query, the chat-history lookup and the composer-index lookup answer
\* with the not-found error, having opened no store, exactly when the name is
\* not a key of the flat map as it is now.
C7_NotFound ==
    result.op \in NameOps =>
        IF result.args.project_name \in DOMAIN db_paths
        THEN ~AnsweredNotFound
        ELSE /\ AnsweredNotFound
             /\ result.call.opened = 0
             /\ result.call.executed = 0
             /\ result.call.created = NoPath

\* "lib", registered at start, was dropped by a pass and is rejected
C7_Witness ==
    /\ cursor_path # NoPath
    /\ result.op \in NameOps
    /\ result.args.project_name = "lib"
    /\ "lib" \notin DOMAIN db_paths
    /\ AnsweredNotFound

(***************************************************************************)
(* SpecQuery: every call, with every argument, over stores of every shape  *)
(***************************************************************************)
StoreVariants == {StoreGood, StoreOdd, NewDatabase, Garbage}

\* the disk has no file at the path
Absent == [t |-> "absent"]

Keys == {PyNone, PyStr(<< >>), PyStr(KEY_CHAT_DATA), PyStr(<<"chat">>),
         PyStr(<<"a", "_", "b">>)}

Limits == {DEFAULT_LIMIT, 2, 0, -1}

InitQuery ==
    /\ fs_dirs = BaseDirs
    /\ \E s1 \in StoreVariants, s2 \in StoreVariants, g \in {StoreGlobal, Garbage, Absent} :
           fs_files =
               [p \in DOMAIN BaseFiles \ (IF g = Absent THEN {GlobalStorePath} ELSE {}) |->
                   CASE p = WsStore(1)      -> s1
                     [] p = WsStore(2)      -> s2
                     [] p = GlobalStorePath -> g
                     [] OTHER               -> BaseFiles[p]]
    /\ cursor_path = DefaultCursorPath
    /\ project_dirs = << >>
    /\ Constructed

NextQuery ==
    \/ RefreshDatabases
    \/ ListAllProjects
    \/ ListDetailedProjects
    \/ \E n \in ProjectNames : GetProjectChatData(n)
    \/ \E n \in ProjectNames : GetProjectComposerIds(n)
    \/ \E c \in {<<"c1">>, <<"c2">>, <<"c3">>, <<"c9">>} : GetComposerDataResource(c)
    \/ \E n \in ProjectNames, t \in {ITEM_TABLE, CURSOR_DISK_KV, "Other"},
          q \in {"get_all", "get_by_key", "search_keys", "delete"},
          k \in Keys, l \in Limits : QueryTable(n, t, q, k, l)
    \/ Respond

SpecQuery == InitQuery /\ [][NextQuery]_vars

(***************************************************************************)
(* Properties of the calls                                                 *)
(***************************************************************************)
\* C6: every protocol-facing call returns a record or an error payload; no
\* exception leaves it.
C6_NoFaultCrosses ==
    result.op # "none" => result.call.out.outcome = "return"

\* query on a registered project
QueryOnRegistered ==
    /\ result.op = "query_table"
    /\ result.args.project_name \in DOMAIN db_paths

\* C8: query on a registered project with a table name that is not one of the
\* two tables answers with the invalid-table error and has opened no store
\* and executed no statement, whatever the query type, key and limit.
C8_BadTableNoAccess ==
    (QueryOnRegistered /\ result.args.table_name \notin {ITEM_TABLE, CURSOR_DISK_KV})
        => /\ result.call.out = Return(<<ErrorPayload(MSG_BAD_TABLE)>>)
           /\ result.call.opened = 0
           /\ result.call.executed = 0
           /\ result.call.created = NoPath

C8_Witness ==
    /\ QueryOnRegistered
    /\ result.args.table_name = "Other"
    /\ result.args.query_type = "search_keys"
    /\ result.args.key = PyStr(<<"chat">>)
    /\ result.call.out = Return(<<ErrorPayload(MSG_BAD_TABLE)>>)
    /\ result.call.opened = 0

\* query that got past the project and the table check
QueryOnTable ==
    /\ QueryOnRegistered
    /\ result.args.table_name \in {ITEM_TABLE, CURSOR_DISK_KV}

\* C9: query is rejected as an invalid argument exactly when the query type
\* is not one of the three, or is get_by_key or search_keys with no key; a
\* key that is given, the empty string included, is not rejected.
C9_InvalidArgumentExactly ==
    QueryOnTable =>
        ((result.call.out = Return(<<ErrorPayload(MSG_BAD_QUERY)>>))
            <=> \/ result.args.query_type
                       \notin {"get_all", "get_by_key", "search_keys"}
                \/ /\ result.args.query_type \in {"get_by_key", "search_keys"}
                   /\ result.args.key = PyNone)

\* the store the query read, when its statement ran without a storage error
QueriedTable ==
    LET file == fs_files[db_paths[result.args.project_name]]
    IN  IF file.t = "db" /\ result.args.table_name \in DOMAIN file.tables
        THEN file.tables[result.args.table_name]
        ELSE << >>

StatementRan ==
    /\ QueryOnTable
    /\ result.call.executed = 1
    /\ LET file == fs_files[db_paths[result.args.project_name]]
       IN  file.t = "db" /\ result.args.table_name \in DOMAIN file.tables

SameValue(a, b) == a.t = b.t /\ (a.t = "none" \/ a.v = b.v)

\* the value a record must carry for a stored value
Decoded(stored) ==
    IF stored.t = "text" /\ stored.v \in DOMAIN JsonDocs
    THEN JsonDocs[stored.v]
    ELSE stored

\* C10: whenever the statement of a query ran, the call returns, and every
\* record carries the decoded document of its stored text when the text
\* parses and the stored value itself otherwise (a NULL value included).
C10_DecodeOrFallback ==
    StatementRan =>
        /\ result.call.out.outcome = "return"
        /\ \A i \in DOMAIN result.call.out.value :
               \E j \in DOMAIN QueriedTable :
                   /\ QueriedTable[j].key = result.call.out.value[i].key
                   /\ SameValue(result.call.out.value[i].value,
                                Decoded(QueriedTable[j].value))

\* sub occurs in x as a run of adjacent characters, compared exactly
Contains(x, sub) ==
    \E i \in 0..(Len(x) - Len(sub)) : SubSeq(x, i + 1, i + Len(sub)) = sub

\* a query of the given types whose statement ran and whose rows came back
RowsReturned(types) ==
    /\ StatementRan
    /\ result.args.query_type \in types
    /\ result.call.out.outcome = "return"

\* C11: search_keys returns only rows whose key contains the given key as a
\* contiguous, case-sensitive substring, and all of them when they are at most
\* limit; "%" and "_" in the key, and letters of the other case, stand for
\* themselves.
C11_SearchIsSubstring ==
    RowsReturned({"search_keys"}) =>
        LET key   == result.args.key.v
            limit == result.args.limit
            got   == result.call.out.value
            Holds(r) == Contains(r.key, key)
            matching == SelectSeq(QueriedTable, Holds)
        IN  /\ \A i \in DOMAIN got : Contains(got[i].key, key)
            /\ (limit >= 0 /\ Len(matching) <= limit)
                   => \A j \in DOMAIN matching :
                          \E i \in DOMAIN got : got[i].key = matching[j].key

\* the most records a limit allows: a limit below zero allows none
Allowed(limit) == IF limit < 0 THEN 0 ELSE limit

\* C12: get_all and search_keys never return more records than limit, for
\* every integer limit, zero and the negative ones included, and every table
\* size.
C12_BoundedBySize ==
    RowsReturned({"get_all", "search_keys"}) =>
        Len(result.call.out.value) <= Allowed(result.args.limit)

\* the composer-detail lookup was answered
ComposerLookup == result.op = "get_composer_data_resource"

\* the rows of the global store that carry the composite key of the lookup
GlobalRows ==
    LET file == fs_files[global_db_path]
        key  == COMPOSER_PREFIX \o result.args.composer_id
        ByKey(r) == r.key = key
    IN  SelectSeq(file.tables[CURSOR_DISK_KV], ByKey)

\* the registry holds the path of a global store that can be read
GlobalReadable ==
    /\ global_db_path \in DOMAIN fs_files
    /\ fs_files[global_db_path].t = "db"
    /\ CURSOR_DISK_KV \in DOMAIN fs_files[global_db_path].tables

\* C13: with no global store path in the registry the composer-detail lookup
\* fails with the not-found error and opens no store; with a path held and no
\* row under the key "composerData:<id>" it returns the explicit not-found
\* result and does not fail.
C13_GlobalLookupNotFound ==
    ComposerLookup =>
        /\ global_db_path = NoPath
               => /\ get_composer_data(result.args.composer_id).out
                         = Raise("ValueError", MSG_NO_GLOBAL)
                  /\ result.call.out = Return(ErrorPayload(MSG_NO_GLOBAL))
                  /\ result.call.opened = 0
                  /\ result.call.executed = 0
                  /\ result.call.created = NoPath
        /\ (global_db_path # NoPath /\ GlobalReadable /\ GlobalRows = << >>)
               => /\ get_composer_data(result.args.composer_id).out
                         = Return(ErrorPayload(MSG_NO_COMPOSER))
                  /\ result.call.out = Return(ErrorPayload(MSG_NO_COMPOSER))

\* a lookup answered by a registry that never found a global store
C13_Witness ==
    /\ ComposerLookup
    /\ global_db_path = NoPath
    /\ GlobalStorePath \notin DOMAIN fs_files
    /\ result.call.out = Return(ErrorPayload(MSG_NO_GLOBAL))
    /\ result.call.opened = 0

\* C14: when query or the composer-detail lookup returns, by whatever path,
\* every connection the call opened has been closed.
C14_ConnectionsClosed ==
    result.op \in {"query_table", "get_composer_data_resource"} =>
        result.call.closed = result.call.opened

(***************************************************************************)
(* SpecConc: refresh_db_paths statement by statement, with the calls of    *)
(* other requests running between its statements                           *)
(***************************************************************************)
Step(next) == pc' = next

\* line 128: self.db_paths = {}
Refresh128 ==
    /\ pc = "idle" /\ result = NoCall
    /\ before' = Maps(db_paths, projects_info)
    /\ db_paths' = ClearedMaps.db_paths
    /\ Step("129")
    /\ UNCHANGED <<fsVars, cfgVars, projects_info, global_db_path, result,
                   passes, todo>>

\* line 129: self.projects_info = {}
Refresh129 ==
    /\ pc = "129"
    /\ projects_info' = ClearedMaps.projects_info
    /\ Step("132")
    /\ UNCHANGED <<fsVars, cfgVars, db_paths, global_db_path, result,
                   passes, todo, before>>

\* lines 132-133: cursor_projects = self.detect_cursor_projects()
Refresh132 ==
    /\ pc = "132"
    /\ IF cursor_path # NoPath
       THEN todo' = cursor_projects /\ Step("134")
       ELSE todo' = project_dirs /\ Step("148")
    /\ UNCHANGED <<fsVars, cfgVars, regVars, result, passes, before>>

\* lines 134-136: self.db_paths[project_name] = project["db_path"]
Refresh134 ==
    /\ pc = "134"
    /\ IF todo = << >>
       THEN Step("140") /\ UNCHANGED db_paths
       ELSE /\ db_paths' = Put(db_paths, Head(todo).name, Head(todo).db_path)
            /\ Step("137")
    /\ UNCHANGED <<fsVars, cfgVars, projects_info, global_db_path, result,
                   passes, todo, before>>

\* line 137: self.projects_info[project_name] = project
Refresh137 ==
    /\ pc = "137"
    /\ projects_info' = Put(projects_info, Head(todo).name, Head(todo))
    /\ todo' = Tail(todo)
    /\ Step("134")
    /\ UNCHANGED <<fsVars, cfgVars, db_paths, global_db_path, result,
                   passes, before>>

\* lines 140-145: the probe for the global store
Refresh140 ==
    /\ pc = "140"
    /\ global_db_path' = ProbeGlobal(global_db_path)
    /\ todo' = project_dirs
    /\ Step("148")
    /\ UNCHANGED <<fsVars, cfgVars, db_paths, projects_info, result,
                   passes, before>>

\* lines 148-154: self.db_paths[project_name] = str(db_path), or the end of
\* the method
Refresh148 ==
    /\ pc = "148"
    /\ IF todo = << >>
       THEN /\ Step("idle")
            /\ passes' = IF passes < MaxPasses THEN passes + 1 ELSE passes
            /\ UNCHANGED <<db_paths, todo>>
       ELSE LET project_path == Resolve(ExpandUser(Head(todo)))
                db_path      == Join(project_path, STATE_DB)
            IN  IF Exists(db_path)
                THEN /\ db_paths' = Put(db_paths, PathName(project_path), db_path)
                     /\ Step("155")
                     /\ UNCHANGED <<todo, passes>>
                ELSE /\ todo' = Tail(todo)
                     /\ Step("148")
                     /\ UNCHANGED <<db_paths, passes>>
    /\ UNCHANGED <<fsVars, cfgVars, projects_info, global_db_path, result,
                   before>>

\* lines 155-160: self.projects_info[project_name] = {...}
Refresh155 ==
    /\ pc = "155"
    /\ LET project_path == Resolve(ExpandUser(Head(todo)))
           project_name == PathName(project_path)
       IN  projects_info' =
               Put(projects_info, project_name,
                   [name          |-> project_name,
                    db_path       |-> Join(project_path, STATE_DB),
                    workspace_dir |-> NoPath,
                    folder_uri    |-> NoPath])
    /\ todo' = Tail(todo)
    /\ Step("148")
    /\ UNCHANGED <<fsVars, cfgVars, db_paths, global_db_path, result,
                   passes, before>>

NextConc ==
    \/ \E p \in VolatileStores : RemoveStore(p)
    \/ \E p \in VolatileStores : WriteStore(p)
    \/ Refresh128
    \/ Refresh129
    \/ Refresh132
    \/ Refresh134
    \/ Refresh137
    \/ Refresh140
    \/ Refresh148
    \/ Refresh155
    \/ ListAllProjects
    \/ ListDetailedProjects
    \/ \E n \in ProjectNames :
           QueryTable(n, ITEM_TABLE, "get_all", PyNone, DEFAULT_LIMIT)
    \/ Respond

SpecConc == Init /\ [][NextConc]_vars

\* the maps once the refresh in progress, if any, has completed
AfterMaps ==
    IF pc = "idle" THEN Maps(db_paths, projects_info)
    ELSE RefreshedMaps(Maps(EmptyMap, EmptyMap))

\* C5: a call answered while a refresh is in progress has seen the maps as
\* they were before the refresh or as they are after it: a listing is one of
\* the two complete maps, never an empty or half-filled one, and a query is
\* not turned down for a name that both hold.
C5_AtomicVisibility ==
    /\ result.op = "list_all_projects"
           => result.call.out.value \in {before.db_paths, AfterMaps.db_paths}
    /\ result.op = "list_detailed_projects"
           => result.call.out.value
                  \in {before.projects_info, AfterMaps.projects_info}
    /\ (result.op = "query_table" /\ AnsweredNotFound)
           => \/ result.args.project_name \notin DOMAIN before.db_paths
              \/ result.args.project_name \notin DOMAIN AfterMaps.db_paths

(***************************************************************************)
(* SpecDiscover: the scan over workspaceStorage entries of every shape     *)
(***************************************************************************)
DiscoverTexts ==
    {TextMyApp, TextLibSlash, TextMalformed, TextRoot, TextSlashes,
     TextScheme, TextNoFolder, TextFolderEmpty, TextFolderFive, TextListDoc}

\* an entry of workspaceStorage: a directory, a file or nothing, and in a
\* directory the descriptor text (or none) and the store (or none)
WorkspaceShapes ==
    {[kind |-> "none", json |-> Absent, store |-> FALSE],
     [kind |-> "file", json |-> Absent, store |-> FALSE],
     [kind |-> "dir", json |-> Absent, store |-> TRUE],
     [kind |-> "dir", json |-> Text(TextMyApp), store |-> FALSE]}
        \cup {[kind |-> "dir", json |-> Text(t), store |-> TRUE] : t \in DiscoverTexts}

DiscoverFiles(shape) ==
    LET W == 1..NumWorkspaces
        Dirs  == {i \in W : shape[i].kind = "dir"}
        paths == (StorePaths \ {WsStore(i) : i \in W})
                     \cup {WsDir(i) : i \in {j \in W : shape[j].kind = "file"}}
                     \cup {WsJson(i) : i \in {j \in Dirs : shape[j].json # Absent}}
                     \cup {WsStore(i) : i \in {j \in Dirs : shape[j].store}}
    IN  [p \in paths |->
            IF \E i \in W : p = WsJson(i)
            THEN shape[CHOOSE i \in W : p = WsJson(i)].json
            ELSE IF \E i \in W : p = WsDir(i) THEN Text(TextEmpty)
            ELSE StoreContent(p)]

InitDiscover ==
    /\ \E shape \in [1..NumWorkspaces -> WorkspaceShapes] :
           /\ fs_dirs =
                  (BaseDirs \ {WsDir(i) : i \in 1..NumWorkspaces})
                      \cup {WsDir(i) : i \in {j \in 1..NumWorkspaces :
                                                 shape[j].kind = "dir"}}
           /\ fs_files = DiscoverFiles(shape)
    /\ cursor_path \in {DefaultCursorPath, get_default_cursor_path("Other")}
    /\ project_dirs = << >>
    /\ Constructed

\* p is d or lies below d
Under(p, d) == Len(p) >= Len(d) /\ SubSeq(p, 1, Len(d)) = d

\* rm -r d
RemoveTree(d) ==
    /\ result = NoCall /\ pc = "idle"
    /\ d \in fs_dirs
    /\ fs_dirs' = {q \in fs_dirs : ~Under(q, d)}
    /\ fs_files' = [q \in {r \in DOMAIN fs_files : ~Under(r, d)} |-> fs_files[q]]
    /\ result' = NoCall
    /\ passes' = 0
    /\ UNCHANGED <<cfgVars, regVars, runVars>>

\* the directory d gives way to a regular file of the same name
ReplaceByFile(d) ==
    /\ result = NoCall /\ pc = "idle"
    /\ d \in fs_dirs
    /\ fs_dirs' = {q \in fs_dirs : ~Under(q, d)}
    /\ fs_files' = Put([q \in {r \in DOMAIN fs_files : ~Under(r, d)} |-> fs_files[q]],
                       d, Text(TextEmpty))
    /\ result' = NoCall
    /\ passes' = 0
    /\ UNCHANGED <<cfgVars, regVars, runVars>>

DetectCursorProjects ==
    Serve("detect_cursor_projects", << >>,
          Call(detect_cursor_projects, 0, 0, 0, NoPath))

NextDiscover ==
    \/ RemoveTree(DefaultCursorPath)
    \/ RemoveTree(WorkspaceStorageDir)
    \/ ReplaceByFile(WorkspaceStorageDir)
    \/ DetectCursorProjects
    \/ RefreshDatabases
    \/ ListDetailedProjects
    \/ Respond

SpecDiscover == InitDiscover /\ [][NextDiscover]_vars

\* the positions of the non-empty segments of a folder identifier
Segments(uri) == {i \in DOMAIN uri : uri[i] # SLASH}

\* C15: every project registered from a workspace descriptor is named by the
\* last non-empty "/"-separated segment of its folder identifier; the name is
\* never empty and never a separator, identifiers made of separators only or
\* of a scheme and separators included; "file:///home/u/code/my-app" gives
\* "my-app".
C15_NameIsLastSegment ==
    \A n \in DOMAIN projects_info :
        LET uri == projects_info[n].folder_uri
        IN  uri # NoPath =>
                /\ projects_info[n].name = n
                /\ n # ""
                /\ n # SLASH
                /\ Segments(uri) # {}
                /\ n = uri[CHOOSE i \in Segments(uri) :
                               \A j \in Segments(uri) : j <= i]
                /\ uri = UriMyApp => n = "my-app"

\* the scan was answered
Detected == result.op = "detect_cursor_projects"

\* entry i of workspaceStorage is a directory with a descriptor and a store,
\* and the descriptor parses and carries a folder identifier
Qualifies(i) ==
    /\ WsDir(i) \in fs_dirs
    /\ WsJson(i) \in DOMAIN fs_files
    /\ WsStore(i) \in DOMAIN fs_files
    /\ fs_files[WsJson(i)].v \in DOMAIN JsonDocs
    /\ LET doc == JsonDocs[fs_files[WsJson(i)].v]
       IN  /\ doc.t = "dict"
           /\ "folder" \in DOMAIN doc.v
           /\ doc.v["folder"].t = "str"
           /\ doc.v["folder"].v # << >>

\* C16: the scan never raises; it returns the empty sequence when the root is
\* absent, does not exist or has no workspaceStorage subdirectory, and
\* otherwise one record for each entry that qualifies, the entries that do not
\* being skipped.
C16_DiscoverySoft ==
    Detected =>
        /\ result.call.out.outcome = "return"
        /\ LET records == result.call.out.value
               W       == 1..NumWorkspaces
           IN  IF \/ cursor_path = NoPath
                  \/ ~Exists(cursor_path)
                  \/ ~IsDir(Join(cursor_path, WORKSPACE_STORAGE))
               THEN records = << >>
               ELSE /\ {records[k].workspace_dir : k \in DOMAIN records}
                           = {WsDir(i) : i \in {j \in W : Qualifies(j)}}
                    /\ Len(records) = Cardinality({j \in W : Qualifies(j)})
                    /\ \A k \in DOMAIN records :
                           /\ records[k].db_path
                                  = Join(records[k].workspace_dir, STATE_DB)
                           /\ records[k].folder_uri # << >>

(***************************************************************************)
(* SpecStartup: app_lifespan applies the command line, then the server     *)
(* takes requests                                                          *)
(***************************************************************************)
\* a root given with --cursor-path, with one workspace of its own
AltRoot == <<"opt", "cursor">>

AltWsDir == Join(Join(AltRoot, WORKSPACE_STORAGE), WsId(1))

\* the state after line 346, db_manager = CursorDBManager(): the manager of
\* the platform's default root, with no explicit directory
InitStartup ==
    /\ fs_dirs = BaseDirs \cup Prefixes(AltWsDir)
    /\ \E alt \in BOOLEAN, second \in BOOLEAN :
           LET json  == Join(AltWsDir, WORKSPACE_JSON)
               store == Join(AltWsDir, STATE_DB)
           IN  fs_files =
                   [p \in (DOMAIN BaseFiles \ (IF second THEN {} ELSE {WsStore(2)}))
                              \cup {json} \cup (IF alt THEN {store} ELSE {}) |->
                       CASE p = json  -> Text(TextLibSlash)
                         [] p = store -> StoreOdd
                         [] OTHER     -> BaseFiles[p]]
    /\ cursor_path \in {DefaultCursorPath, get_default_cursor_path("Other")}
    /\ project_dirs = << >>
    /\ db_paths = RefreshedMaps(Maps(EmptyMap, EmptyMap)).db_paths
    /\ projects_info = RefreshedMaps(Maps(EmptyMap, EmptyMap)).projects_info
    /\ global_db_path = ProbeGlobal(NoPath)
    /\ result = NoCall
    /\ passes = 1
    /\ pc = "start"
    /\ todo = << >>
    /\ before = Maps(db_paths, projects_info)

\* an option that is not given is NoPath (--cursor-path) or the empty
\* sequence (--project-dirs)
\* app_lifespan from the parsing of the command line to the yield: the root
\* is assigned, and each explicit directory is handed to add_project_dir, a
\* method CursorDBManager does not have
app_lifespan(cursor_path_arg, project_dirs_arg) ==
    /\ pc = "start" /\ result = NoCall
    /\ cursor_path' = IF cursor_path_arg # NoPath
                      THEN Resolve(ExpandUser(cursor_path_arg))
                      ELSE cursor_path
    /\ IF project_dirs_arg # << >>
       THEN /\ pc' = "failed"
            /\ result' = Answered("app_lifespan",
                             [cursor_path  |-> cursor_path_arg,
                              project_dirs |-> project_dirs_arg],
                             Call(Raise("AttributeError",
                                        "object has no attribute add_project_dir"),
                                  0, 0, 0, NoPath))
       ELSE /\ pc' = "idle"
            /\ result' = Answered("app_lifespan",
                             [cursor_path  |-> cursor_path_arg,
                              project_dirs |-> project_dirs_arg],
                             Call(Return(list_all_projects.out.value),
                                  0, 0, 0, NoPath))
    /\ UNCHANGED <<fsVars, project_dirs, regVars, passes, todo, before>>

\* the requests, taken once startup has completed
Serving ==
    /\ pc = "idle"
    /\ \/ ListAllProjects
       \/ ListDetailedProjects
       \/ \E n \in ProjectNames :
              QueryTable(n, ITEM_TABLE, "get_all", PyNone, DEFAULT_LIMIT)
       \/ RefreshDatabases

NextStartup ==
    \/ \E c \in {NoPath, AltRoot, <<"~", ".config", "Cursor", "User">>, <<"nowhere">>},
          d \in {<< >>, <<XDir>>, <<YDir, XDir>>} : app_lifespan(c, d)
    \/ Serving
    \/ Respond

SpecStartup == InitStartup /\ [][NextStartup]_vars

\* no refresh has been asked for since startup, and the disk is as it was
BeforeFirstRefresh == pc = "idle" /\ passes = 1

\* C17: startup with --cursor-path and/or --project-dirs completes without
\* error, and the registry the first listing or query is served from holds
\* the projects found under the configured root and directories, with no
\* refresh by the caller.
C17_StartupConfigured ==
    /\ pc # "failed"
    /\ (BeforeFirstRefresh /\ result.op = "list_all_projects")
           => result.call.out.value
                  = RefreshedMaps(Maps(EmptyMap, EmptyMap)).db_paths
    /\ (BeforeFirstRefresh /\ result.op = "query_table")
           => (AnsweredNotFound
                  <=> result.args.project_name
                          \notin DOMAIN RefreshedMaps(Maps(EmptyMap, EmptyMap)).db_paths)

====
